---- MODULE Spec2Model ----
(***************************************************************************)
(* PCREReplaceTextBuilder (Sigil, src/PCRE2/PCREReplaceTextBuilder.cpp).   *)
(*                                                                         *)
(* BuildReplacementText scans a replacement pattern one QChar at a time    *)
(* and builds the replacement text in m_finalText, applying numbered and   *)
(* named back references, metacharacters, \x hex escapes and the case      *)
(* changes \l \u \L \U \E.                                                 *)
(*                                                                         *)
(* A QChar is modelled as its 16-bit code unit (an integer), a QString as  *)
(* a sequence of code units.  One call is modelled as the entry step       *)
(* (resetState, the validity check, the fast path), one step per iteration *)
(* of the for loop, and the exit step (the flush of an unterminated        *)
(* control, out = m_finalText, return true).                               *)
(***************************************************************************)
EXTENDS Integers, Sequences, FiniteSets, TLC

VARIABLES
    pc,                          \* "idle" | "scan" | "done": position of the call
    sre, text, capture_groups_offsets, replacement_pattern,   \* the arguments
    out,                         \* the caller's QString &out
    ret,                         \* "none" | "true" | "false": the returned bool
    i,                           \* the loop index (0-based, as in the source)
    m_finalText, m_caseChangeState,                           \* the members
    control_char, backref_bracket_start_char, backref_name,   \* the locals
    invalid_control, control_x_hex, control_x6_hex, in_hex6, in_control,
    segment,                     \* history: the texts handed to accumulateReplcementText by the last step
    lookups,                     \* history: the names handed to sre.getCaptureStringNumber by the last step
    control_start                \* history: the index of the backslash that last set in_control

vars == <<pc, sre, text, capture_groups_offsets, replacement_pattern, out, ret, i,
          m_finalText, m_caseChangeState, control_char, backref_bracket_start_char,
          backref_name, invalid_control, control_x_hex, control_x6_hex, in_hex6,
          in_control, segment, lookups, control_start>>

(***************************************************************************)
(* Characters.                                                             *)
(***************************************************************************)

\* The printable ASCII characters, U+0020 to U+007E, in code order.
Printable ==
    << " ", "!", "\"", "#", "$", "%", "&", "'", "(", ")", "*", "+", ",", "-", ".", "/",
       "0", "1", "2", "3", "4", "5", "6", "7", "8", "9", ":", ";", "<", "=", ">", "?",
       "@", "A", "B", "C", "D", "E", "F", "G", "H", "I", "J", "K", "L", "M", "N", "O",
       "P", "Q", "R", "S", "T", "U", "V", "W", "X", "Y", "Z", "[", "\\", "]", "^", "_",
       "grave", "a", "b", "c", "d", "e", "f", "g", "h", "i", "j", "k", "l", "m", "n", "o",
       "p", "q", "r", "s", "t", "u", "v", "w", "x", "y", "z", "{", "|", "}", "~" >>

\* The code unit of a character literal.
Ord(ch) == 31 + (CHOOSE k \in 1..Len(Printable) : Printable[k] = ch)

\* The QString of a string literal, given as the sequence of its characters.
Str(lit) == [k \in 1..Len(lit) |-> Ord(lit[k])]

\* QChar(): the null character.
QCharNull == 0

\* #define is_hex(a)
is_hex(a) ==
    \/ (a >= Ord("0") /\ a <= Ord("9"))
    \/ (a >= Ord("a") /\ a <= Ord("f"))
    \/ (a >= Ord("A") /\ a <= Ord("F"))

\* QChar::isDigit, on the ASCII digits.
isDigit(c) == c >= Ord("0") /\ c <= Ord("9")

\* QChar::digitValue, on the ASCII digits.
digitValue(c) == c - Ord("0")

\* QChar::toLower: the simple lower-case mapping, on ASCII and Latin-1.
toLower(c) ==
    IF c >= Ord("A") /\ c <= Ord("Z") THEN c + 32
    ELSE IF c >= 192 /\ c <= 222 /\ c # 215 THEN c + 32
    ELSE c

\* QChar::toUpper: the simple upper-case mapping, on ASCII and Latin-1.
toUpper(c) ==
    IF c >= Ord("a") /\ c <= Ord("z") THEN c - 32
    ELSE IF c >= 224 /\ c <= 254 /\ c # 247 THEN c - 32
    ELSE IF c = 255 THEN 376
    ELSE IF c = 181 THEN 924
    ELSE c

\* QString::toLower / QString::toUpper, character by character.  (Qt's full
\* mapping differs from the simple one on characters such as U+00DF and on
\* surrogate pairs; no pattern of the specifications below produces one.)
StringToLower(s) == [k \in 1..Len(s) |-> toLower(s[k])]
StringToUpper(s) == [k \in 1..Len(s) |-> toUpper(s[k])]

\* The value of one hexadecimal digit.
HexDigit(c) ==
    IF c >= Ord("0") /\ c <= Ord("9") THEN c - Ord("0")
    ELSE IF c >= Ord("a") /\ c <= Ord("f") THEN c - Ord("a") + 10
    ELSE c - Ord("A") + 10

\* QString::toUInt(NULL, 16) of a string of hexadecimal digits.
RECURSIVE toUInt16(_)
toUInt16(s) ==
    IF Len(s) = 0 THEN 0
    ELSE 16 * toUInt16(SubSeq(s, 1, Len(s) - 1)) + HexDigit(s[Len(s)])

\* QString::fromUcs4 of one code point: one code unit, or a surrogate pair.
fromUcs4(achar) ==
    IF achar < 65536 THEN << achar >>
    ELSE << 55296 + ((achar - 65536) \div 1024), 56320 + ((achar - 65536) % 1024) >>

\* QChar::isSpace, on ASCII.
isSpace(c) == c = 32 \/ (c >= 9 /\ c <= 13)

\* The value of a string of decimal digits, or -1 when it exceeds INT_MAX.
RECURSIVE DecValue(_)
DecValue(s) ==
    IF Len(s) = 0 THEN 0
    ELSE LET high == DecValue(SubSeq(s, 1, Len(s) - 1))
             d == digitValue(s[Len(s)])
         IN  IF high < 0 \/ high > (2147483647 - d) \div 10 THEN 0 - 1
             ELSE 10 * high + d

RECURSIVE SkipSpaceLeft(_)
SkipSpaceLeft(s) ==
    IF Len(s) > 0 /\ isSpace(s[1]) THEN SkipSpaceLeft(Tail(s)) ELSE s

RECURSIVE SkipSpaceRight(_)
SkipSpaceRight(s) ==
    IF Len(s) > 0 /\ isSpace(s[Len(s)]) THEN SkipSpaceRight(SubSeq(s, 1, Len(s) - 1)) ELSE s

RECURSIVE SkipZeros(_)
SkipZeros(s) ==
    IF Len(s) > 0 /\ s[1] = Ord("0") THEN SkipZeros(Tail(s)) ELSE s

\* QString::toInt(): surrounding white space, an optional sign, decimal digits;
\* 0 when the text is no such number or the number does not fit an int.
toInt(s) ==
    LET t == SkipSpaceRight(SkipSpaceLeft(s))
        signed == Len(t) > 0 /\ t[1] \in {Ord("+"), Ord("-")}
        negative == signed /\ t[1] = Ord("-")
        digits == IF signed THEN Tail(t) ELSE t
    IN  IF Len(digits) = 0 \/ \E k \in 1..Len(digits) : ~isDigit(digits[k]) THEN 0
        ELSE IF DecValue(digits) >= 0
             THEN IF negative THEN 0 - DecValue(digits) ELSE DecValue(digits)
        ELSE IF negative /\ SkipZeros(digits) =
                    Str(<<"2", "1", "4", "7", "4", "8", "3", "6", "4", "8">>)
             THEN (0 - 2147483647) - 1
        ELSE 0

\* QString::contains(ch)
contains(s, ch) == \E k \in 1..Len(s) : s[k] = ch

(***************************************************************************)
(* The collaborators.                                                      *)
(***************************************************************************)

\* Utility::Substring(start_index, end_index, string)
Substring(start_index, end_index, string) ==
    SubSeq(string, start_index + 1, end_index)

\* SPCRE::getCaptureStringNumber(name): the number of the named group, or the
\* value the regex gives for a name it does not know.
getCaptureStringNumber(re, name) ==
    IF name = re.groupName THEN re.groupNumber ELSE 0 - 1

(***************************************************************************)
(* The case change engine.                                                 *)
(***************************************************************************)

CaseChanges == {"CaseChange_None", "CaseChange_LowerNext", "CaseChange_Lower",
                "CaseChange_UpperNext", "CaseChange_Upper"}

\* processTextSegement with \L and \U ending after one segment.
processTextSegement_CaseEndsAfterSegment(t, state) ==
    IF Len(t) = 0 THEN [processedText |-> << >>, state |-> state]
    ELSE CASE state = "CaseChange_LowerNext" ->
                [processedText |-> << toLower(t[1]) >> \o Tail(t), state |-> "CaseChange_None"]
           [] state = "CaseChange_Lower" ->
                [processedText |-> StringToLower(t), state |-> "CaseChange_None"]
           [] state = "CaseChange_UpperNext" ->
                [processedText |-> << toUpper(t[1]) >> \o Tail(t), state |-> "CaseChange_None"]
           [] state = "CaseChange_Upper" ->
                [processedText |-> StringToUpper(t), state |-> "CaseChange_None"]
           [] OTHER ->
                [processedText |-> t, state |-> state]

\* processTextSegement with \l and \u changing the case of the whole segment.
processTextSegement_NextCasesWholeSegment(t, state) ==
    IF Len(t) = 0 THEN [processedText |-> << >>, state |-> state]
    ELSE CASE state = "CaseChange_LowerNext" ->
                [processedText |-> StringToLower(t), state |-> "CaseChange_None"]
           [] state = "CaseChange_Lower" ->
                [processedText |-> StringToLower(t), state |-> state]
           [] state = "CaseChange_UpperNext" ->
                [processedText |-> StringToUpper(t), state |-> "CaseChange_None"]
           [] state = "CaseChange_Upper" ->
                [processedText |-> StringToUpper(t), state |-> state]
           [] OTHER ->
                [processedText |-> t, state |-> state]

\* processTextSegement(const QString &text): the processed text and the
\* m_caseChangeState it leaves.
processTextSegement(t, state) ==
    IF Len(t) = 0 THEN [processedText |-> << >>, state |-> state]
    ELSE CASE state = "CaseChange_LowerNext" ->
                [processedText |-> << toLower(t[1]) >> \o Tail(t), state |-> "CaseChange_None"]
           [] state = "CaseChange_Lower" ->
                [processedText |-> StringToLower(t), state |-> state]
           [] state = "CaseChange_UpperNext" ->
                [processedText |-> << toUpper(t[1]) >> \o Tail(t), state |-> "CaseChange_None"]
           [] state = "CaseChange_Upper" ->
                [processedText |-> StringToUpper(t), state |-> state]
           [] OTHER ->
                [processedText |-> t, state |-> state]

\* accumulateReplcementText that puts the processed text in front of m_finalText.
accumulateReplcementText_Prepends(b, t) ==
    LET p == processTextSegement(t, b.m_caseChangeState)
    IN  [b EXCEPT !.m_finalText = p.processedText \o @,
                  !.m_caseChangeState = p.state,
                  !.segment = Append(@, t)]

\* accumulateReplcementText(text) on the builder record b.
accumulateReplcementText(b, t) ==
    LET p == processTextSegement(t, b.m_caseChangeState)
    IN  [b EXCEPT !.m_finalText = @ \o p.processedText,
                  !.m_caseChangeState = p.state,
                  !.segment = Append(@, t)]

\* trySetCaseChange where the last directive wins.
trySetCaseChange_LastWins(b, state) ==
    [b EXCEPT !.m_caseChangeState = state]

\* trySetCaseChange(state) on the builder record b.
trySetCaseChange(b, state) ==
    IF b.m_caseChangeState = "CaseChange_None"
    THEN [b EXCEPT !.m_caseChangeState = state]
    ELSE b

(***************************************************************************)
(* The hex escapes.                                                        *)
(***************************************************************************)

\* IsValidHex6 without the check of the plane byte.
IsValidHex6_AnyPlane(hv) ==
    LET hl == Len(hv)
    IN  IF hl < 2 \/ hl = 3 \/ hl = 5 \/ hl > 6 THEN FALSE
        ELSE IF \E k \in 1..hl : ~is_hex(hv[k]) THEN FALSE
        ELSE TRUE

\* IsValidHex6(hv)
IsValidHex6(hv) ==
    LET hl == Len(hv)
    IN  IF hl < 2 \/ hl = 3 \/ hl = 5 \/ hl > 6 THEN FALSE
        ELSE IF \E k \in 1..hl : ~is_hex(hv[k]) THEN FALSE
        ELSE IF hl = 2 \/ hl = 4 THEN TRUE
        ELSE IF SubSeq(hv, 1, 1) = Str(<<"0">>) \/ SubSeq(hv, 1, 2) = Str(<<"1", "0">>) THEN TRUE
        ELSE FALSE

\* The code point a valid \x{...} digit string stands for.
DecodeHex6(hv) ==
    LET hl == Len(hv)
    IN  IF hl = 2 \/ hl = 4 THEN << toUInt16(hv) >>
        ELSE LET extended_plane == SubSeq(hv, 1, 2)
                 remainder == SubSeq(hv, hl - 3, hl)
             IN  fromUcs4((65536 * toUInt16(extended_plane)) + toUInt16(remainder))

(***************************************************************************)
(* One iteration of the scan, on the builder record b holding the members  *)
(* and the locals, for the character c.                                    *)
(***************************************************************************)

EndControl(b) == [b EXCEPT !.in_control = FALSE]

\* The text of capture group n.
CaptureText(n) ==
    Substring(capture_groups_offsets[n + 1][1], capture_groups_offsets[n + 1][2], text)

\* Append capture group backref_number when there is one, else the control as typed.
AppendBackref(b, backref_number) ==
    IF backref_number >= 0 /\ backref_number < Len(capture_groups_offsets)
    THEN accumulateReplcementText(b, CaptureText(backref_number))
    ELSE accumulateReplcementText(b, b.invalid_control)

\* The metacharacter a control character stands for.
Metacharacter(c) ==
    CASE c = Ord("a") -> 7
      [] c = Ord("b") -> 8
      [] c = Ord("f") -> 12
      [] c = Ord("n") -> 10
      [] c = Ord("r") -> 13
      [] c = Ord("t") -> 9
      [] c = Ord("v") -> 11
      [] c = Ord("\\") -> Ord("\\")

IsMetacharacter(c) ==
    c \in {Ord("a"), Ord("b"), Ord("f"), Ord("n"), Ord("r"), Ord("t"), Ord("v"), Ord("\\")}

\* The first character after the backslash, where a digit does not end the control.
ControlStart_DigitStaysInControl(b0, c) ==
    LET b == [b0 EXCEPT !.control_char = c]
    IN  IF isDigit(c) THEN AppendBackref(b, digitValue(c))
        ELSE IF IsMetacharacter(c) THEN EndControl(accumulateReplcementText(b, << Metacharacter(c) >>))
        ELSE IF c = Ord("E") THEN EndControl([b EXCEPT !.m_caseChangeState = "CaseChange_None"])
        ELSE IF c = Ord("g") THEN [b EXCEPT !.backref_bracket_start_char = QCharNull]
        ELSE IF c = Ord("l") THEN EndControl(trySetCaseChange(b, "CaseChange_LowerNext"))
        ELSE IF c = Ord("L") THEN EndControl(trySetCaseChange(b, "CaseChange_Lower"))
        ELSE IF c = Ord("u") THEN EndControl(trySetCaseChange(b, "CaseChange_UpperNext"))
        ELSE IF c = Ord("U") THEN EndControl(trySetCaseChange(b, "CaseChange_Upper"))
        ELSE b

\* The first character after the backslash: control_char.isNull().
ControlStart(b0, c) ==
    LET b == [b0 EXCEPT !.control_char = c]
    IN  IF isDigit(c) THEN EndControl(AppendBackref(b, digitValue(c)))
        ELSE IF IsMetacharacter(c) THEN EndControl(accumulateReplcementText(b, << Metacharacter(c) >>))
        ELSE IF c = Ord("E") THEN EndControl([b EXCEPT !.m_caseChangeState = "CaseChange_None"])
        ELSE IF c = Ord("g") THEN [b EXCEPT !.backref_bracket_start_char = QCharNull]
        ELSE IF c = Ord("l") THEN EndControl(trySetCaseChange(b, "CaseChange_LowerNext"))
        ELSE IF c = Ord("L") THEN EndControl(trySetCaseChange(b, "CaseChange_Lower"))
        ELSE IF c = Ord("u") THEN EndControl(trySetCaseChange(b, "CaseChange_UpperNext"))
        ELSE IF c = Ord("U") THEN EndControl(trySetCaseChange(b, "CaseChange_Upper"))
        ELSE b

\* BackrefNumber without the test for the name "0".
BackrefNumber_ZeroIsAName(backref_name_) ==
    LET backref_number == toInt(backref_name_)
    IN  IF backref_number = 0
        THEN [number |-> getCaptureStringNumber(sre, backref_name_), lookups |-> << backref_name_ >>]
        ELSE [number |-> backref_number, lookups |-> << >>]

\* The number of the back reference named backref_name, and the names looked up.
BackrefNumber(backref_name_) ==
    LET backref_number == toInt(backref_name_)
    IN  IF backref_number = 0 /\ backref_name_ # Str(<<"0">>)
        THEN [number |-> getCaptureStringNumber(sre, backref_name_), lookups |-> << backref_name_ >>]
        ELSE [number |-> backref_number, lookups |-> << >>]

\* control_char == 'g' where the text of the group bypasses the case change.
ControlG_BackrefSkipsCaseChange(b, c) ==
    IF b.backref_bracket_start_char = QCharNull
    THEN IF c = Ord("{") \/ c = Ord("<")
         THEN [b EXCEPT !.backref_bracket_start_char = c, !.backref_name = << >>]
         ELSE accumulateReplcementText(EndControl(b), b.invalid_control)
    ELSE IF \/ (c = Ord("}") /\ b.backref_bracket_start_char = Ord("{"))
            \/ (c = Ord(">") /\ b.backref_bracket_start_char = Ord("<"))
         THEN LET r == BackrefNumber(b.backref_name)
              IN  IF r.number >= 0 /\ r.number < Len(capture_groups_offsets)
                  THEN [b EXCEPT !.lookups = r.lookups,
                                 !.m_finalText = @ \o CaptureText(r.number),
                                 !.segment = Append(@, CaptureText(r.number)),
                                 !.in_control = FALSE]
                  ELSE EndControl(AppendBackref([b EXCEPT !.lookups = r.lookups], r.number))
         ELSE [b EXCEPT !.backref_name = Append(@, c)]

\* control_char == 'g' where either closer ends a name, whatever bracket opened it.
ControlG_AnyCloserEnds(b, c) ==
    IF b.backref_bracket_start_char = QCharNull
    THEN IF c = Ord("{") \/ c = Ord("<")
         THEN [b EXCEPT !.backref_bracket_start_char = c, !.backref_name = << >>]
         ELSE accumulateReplcementText(EndControl(b), b.invalid_control)
    ELSE IF c = Ord("}") \/ c = Ord(">")
         THEN LET r == BackrefNumber(b.backref_name)
              IN  EndControl(AppendBackref([b EXCEPT !.lookups = r.lookups], r.number))
         ELSE [b EXCEPT !.backref_name = Append(@, c)]

\* control_char == 'g'
ControlG(b, c) ==
    IF b.backref_bracket_start_char = QCharNull
    THEN IF c = Ord("{") \/ c = Ord("<")
         THEN [b EXCEPT !.backref_bracket_start_char = c, !.backref_name = << >>]
         ELSE accumulateReplcementText(EndControl(b), b.invalid_control)
    ELSE IF \/ (c = Ord("}") /\ b.backref_bracket_start_char = Ord("{"))
            \/ (c = Ord(">") /\ b.backref_bracket_start_char = Ord("<"))
         THEN LET r == BackrefNumber(b.backref_name)
              IN  EndControl(AppendBackref([b EXCEPT !.lookups = r.lookups], r.number))
         ELSE [b EXCEPT !.backref_name = Append(@, c)]

\* control_char == 'x'
ControlX(b, c) ==
    IF c = Ord("{") /\ ~b.in_hex6
    THEN [b EXCEPT !.in_hex6 = TRUE]
    ELSE IF c = Ord("}") /\ b.in_hex6 /\ IsValidHex6(b.control_x6_hex)
    THEN [accumulateReplcementText(b, DecodeHex6(b.control_x6_hex))
            EXCEPT !.in_control = FALSE, !.in_hex6 = FALSE, !.control_x6_hex = << >>]
    ELSE IF is_hex(c)
    THEN IF b.in_hex6
         THEN [b EXCEPT !.control_x6_hex = Append(@, c)]
         ELSE LET b1 == [b EXCEPT !.control_x_hex = Append(@, c)]
              IN  IF Len(b1.control_x_hex) = 2
                  THEN EndControl(accumulateReplcementText(b1, << toUInt16(b1.control_x_hex) >>))
                  ELSE b1
    ELSE EndControl(accumulateReplcementText(b, b.invalid_control))

\* The body of the for loop where a backslash does not restart invalid_control.
LoopBody_KeepsInvalidControl(b0, c) ==
    IF b0.in_control
    THEN LET b == [b0 EXCEPT !.invalid_control = Append(@, c)]
         IN  IF b.control_char = QCharNull THEN ControlStart(b, c)
             ELSE IF b.control_char = Ord("g") THEN ControlG(b, c)
             ELSE IF b.control_char = Ord("x") THEN ControlX(b, c)
             ELSE EndControl(accumulateReplcementText(b, b.invalid_control))
    ELSE IF c = Ord("\\")
         THEN [b0 EXCEPT !.invalid_control = Append(@, c),
                         !.control_char = QCharNull,
                         !.control_x_hex = << >>,
                         !.control_x6_hex = << >>,
                         !.in_hex6 = FALSE,
                         !.in_control = TRUE]
         ELSE accumulateReplcementText(b0, << c >>)

\* The body of the for loop where a backslash does not reset the hex digits
\* and the in_hex6 flag.
LoopBody_KeepsHexState(b0, c) ==
    IF b0.in_control
    THEN LET b == [b0 EXCEPT !.invalid_control = Append(@, c)]
         IN  IF b.control_char = QCharNull THEN ControlStart(b, c)
             ELSE IF b.control_char = Ord("g") THEN ControlG(b, c)
             ELSE IF b.control_char = Ord("x") THEN ControlX(b, c)
             ELSE EndControl(accumulateReplcementText(b, b.invalid_control))
    ELSE IF c = Ord("\\")
         THEN [b0 EXCEPT !.invalid_control = << c >>,
                         !.control_char = QCharNull,
                         !.in_control = TRUE]
         ELSE accumulateReplcementText(b0, << c >>)

\* The body of the for loop.
LoopBody(b0, c) ==
    IF b0.in_control
    THEN LET b == [b0 EXCEPT !.invalid_control = Append(@, c)]
         IN  IF b.control_char = QCharNull THEN ControlStart(b, c)
             ELSE IF b.control_char = Ord("g") THEN ControlG(b, c)
             ELSE IF b.control_char = Ord("x") THEN ControlX(b, c)
             ELSE EndControl(accumulateReplcementText(b, b.invalid_control))
    ELSE IF c = Ord("\\")
         THEN [b0 EXCEPT !.invalid_control = << c >>,
                         !.control_char = QCharNull,
                         !.control_x_hex = << >>,
                         !.control_x6_hex = << >>,
                         !.in_hex6 = FALSE,
                         !.in_control = TRUE]
         ELSE accumulateReplcementText(b0, << c >>)

\* The for loop over the characters of p, from the builder b.
RECURSIVE ForLoop(_, _)
ForLoop(b, p) ==
    IF Len(p) = 0 THEN b ELSE ForLoop(LoopBody(b, Head(p)), Tail(p))

(***************************************************************************)
(* The state machine.                                                      *)
(***************************************************************************)

\* The members and locals as one record, with the step's history cleared.
Builder ==
    [m_finalText |-> m_finalText, m_caseChangeState |-> m_caseChangeState,
     control_char |-> control_char,
     backref_bracket_start_char |-> backref_bracket_start_char,
     backref_name |-> backref_name, invalid_control |-> invalid_control,
     control_x_hex |-> control_x_hex, control_x6_hex |-> control_x6_hex,
     in_hex6 |-> in_hex6, in_control |-> in_control,
     segment |-> << >>, lookups |-> << >>]

SetBuilder(b) ==
    /\ m_finalText' = b.m_finalText
    /\ m_caseChangeState' = b.m_caseChangeState
    /\ control_char' = b.control_char
    /\ backref_bracket_start_char' = b.backref_bracket_start_char
    /\ backref_name' = b.backref_name
    /\ invalid_control' = b.invalid_control
    /\ control_x_hex' = b.control_x_hex
    /\ control_x6_hex' = b.control_x6_hex
    /\ in_hex6' = b.in_hex6
    /\ in_control' = b.in_control
    /\ segment' = b.segment
    /\ lookups' = b.lookups

\* resetState(), and the locals as BuildReplacementText declares them.
resetState ==
    [m_finalText |-> << >>, m_caseChangeState |-> "CaseChange_None",
     control_char |-> QCharNull, backref_bracket_start_char |-> QCharNull,
     backref_name |-> << >>, invalid_control |-> << >>,
     control_x_hex |-> << >>, control_x6_hex |-> << >>,
     in_hex6 |-> FALSE, in_control |-> FALSE,
     segment |-> << >>, lookups |-> << >>]

\* The text a call with a valid regex and the pattern p puts in out when it
\* starts from the state resetState() and the fresh locals give: the pattern
\* on the fast path, else m_finalText after the loop and the flush of an
\* unterminated control.
BuiltText(p) ==
    IF ~contains(p, Ord("\\")) THEN p
    ELSE LET b == ForLoop(resetState, p)
         IN  IF b.in_control
             THEN accumulateReplcementText(b, b.invalid_control).m_finalText
             ELSE b.m_finalText

\* The source text of the searches.
SourceText == Str(<<"B", "a">>)

\* The caller's out before the call.
OutBefore == Str(<<"z">>)

\* The constructor: resetState().
Init ==
    /\ pc = "idle"
    /\ sre = [valid |-> TRUE, groupName |-> << >>, groupNumber |-> 0 - 1]
    /\ text = << >>
    /\ capture_groups_offsets = << >>
    /\ replacement_pattern = << >>
    /\ out = OutBefore
    /\ ret = "none"
    /\ i = 0
    /\ m_finalText = << >>
    /\ m_caseChangeState = "CaseChange_None"
    /\ control_char = QCharNull
    /\ backref_bracket_start_char = QCharNull
    /\ backref_name = << >>
    /\ invalid_control = << >>
    /\ control_x_hex = << >>
    /\ control_x6_hex = << >>
    /\ in_hex6 = FALSE
    /\ in_control = FALSE
    /\ segment = << >>
    /\ lookups = << >>
    /\ control_start = 0

\* BuildReplacementText whose fast path does not copy the pattern to out.
BuildReplacementText_FastPathKeepsOut(s, t, cg, p) ==
    /\ sre' = s
    /\ text' = t
    /\ capture_groups_offsets' = cg
    /\ replacement_pattern' = p
    /\ i' = 0
    /\ control_start' = 0
    /\ SetBuilder(resetState)
    /\ IF ~s.valid
       THEN /\ pc' = "done"
            /\ ret' = "false"
            /\ out' = out
       ELSE IF ~contains(p, Ord("\\"))
       THEN /\ pc' = "done"
            /\ ret' = "true"
            /\ out' = resetState.m_finalText
       ELSE /\ pc' = "scan"
            /\ ret' = "none"
            /\ out' = out

\* BuildReplacementText without the resetState() of the members.
BuildReplacementText_KeepsMembers(s, t, cg, p) ==
    /\ sre' = s
    /\ text' = t
    /\ capture_groups_offsets' = cg
    /\ replacement_pattern' = p
    /\ i' = 0
    /\ control_start' = 0
    /\ SetBuilder([resetState EXCEPT !.m_finalText = m_finalText,
                                     !.m_caseChangeState = m_caseChangeState])
    /\ IF ~s.valid
       THEN /\ pc' = "done"
            /\ ret' = "false"
            /\ out' = out
       ELSE IF ~contains(p, Ord("\\"))
       THEN /\ pc' = "done"
            /\ ret' = "true"
            /\ out' = p
       ELSE /\ pc' = "scan"
            /\ ret' = "none"
            /\ out' = out

\* BuildReplacementText that clears out when the regex is invalid.
BuildReplacementText_InvalidClearsOut(s, t, cg, p) ==
    /\ sre' = s
    /\ text' = t
    /\ capture_groups_offsets' = cg
    /\ replacement_pattern' = p
    /\ i' = 0
    /\ control_start' = 0
    /\ SetBuilder(resetState)
    /\ IF ~s.valid
       THEN /\ pc' = "done"
            /\ ret' = "false"
            /\ out' = resetState.m_finalText
       ELSE IF ~contains(p, Ord("\\"))
       THEN /\ pc' = "done"
            /\ ret' = "true"
            /\ out' = p
       ELSE /\ pc' = "scan"
            /\ ret' = "none"
            /\ out' = out

\* BuildReplacementText up to the for loop: resetState, the validity check,
\* the fast path.
BuildReplacementText(s, t, cg, p) ==
    /\ sre' = s
    /\ text' = t
    /\ capture_groups_offsets' = cg
    /\ replacement_pattern' = p
    /\ i' = 0
    /\ control_start' = 0
    /\ SetBuilder(resetState)
    /\ IF ~s.valid
       THEN /\ pc' = "done"
            /\ ret' = "false"
            /\ out' = out
       ELSE IF ~contains(p, Ord("\\"))
       THEN /\ pc' = "done"
            /\ ret' = "true"
            /\ out' = p
       ELSE /\ pc' = "scan"
            /\ ret' = "none"
            /\ out' = out

\* BuildReplacementText up to the for loop with the shortcut of lines 65-68
\* left out: resetState, the validity check, then the scan for every pattern.
ScanWithoutFastPath(s, t, cg, p) ==
    /\ sre' = s
    /\ text' = t
    /\ capture_groups_offsets' = cg
    /\ replacement_pattern' = p
    /\ i' = 0
    /\ control_start' = 0
    /\ SetBuilder(resetState)
    /\ out' = out
    /\ IF ~s.valid
       THEN /\ pc' = "done"
            /\ ret' = "false"
       ELSE /\ pc' = "scan"
            /\ ret' = "none"

\* One iteration of the for loop.
ScanStep ==
    /\ pc = "scan"
    /\ i < Len(replacement_pattern)
    /\ LET b == LoopBody(Builder, replacement_pattern[i + 1])
       IN  SetBuilder(b)
    /\ control_start' =
          (IF ~in_control /\ replacement_pattern[i + 1] = Ord("\\") THEN i ELSE control_start)
    /\ i' = i + 1
    /\ UNCHANGED <<pc, sre, text, capture_groups_offsets, replacement_pattern, out, ret>>

\* The exit that reports an unterminated control as a failure.
Finish_FailsOnOpenControl ==
    /\ pc = "scan"
    /\ i = Len(replacement_pattern)
    /\ LET b == IF in_control
                THEN accumulateReplcementText(Builder, invalid_control)
                ELSE Builder
       IN  /\ SetBuilder(b)
           /\ out' = b.m_finalText
    /\ ret' = IF in_control THEN "false" ELSE "true"
    /\ pc' = "done"
    /\ UNCHANGED <<sre, text, capture_groups_offsets, replacement_pattern, i, control_start>>

\* The exit that drops an unterminated control.
Finish_DropsOpenControl ==
    /\ pc = "scan"
    /\ i = Len(replacement_pattern)
    /\ SetBuilder(Builder)
    /\ out' = m_finalText
    /\ ret' = "true"
    /\ pc' = "done"
    /\ UNCHANGED <<sre, text, capture_groups_offsets, replacement_pattern, i, control_start>>

\* After the loop: the unterminated control, out = m_finalText, return true.
Finish ==
    /\ pc = "scan"
    /\ i = Len(replacement_pattern)
    /\ LET b == IF in_control
                THEN accumulateReplcementText(Builder, invalid_control)
                ELSE Builder
       IN  /\ SetBuilder(b)
           /\ out' = b.m_finalText
    /\ ret' = "true"
    /\ pc' = "done"
    /\ UNCHANGED <<sre, text, capture_groups_offsets, replacement_pattern, i, control_start>>

(***************************************************************************)
(* The callers' inputs.                                                    *)
(***************************************************************************)

MaxLen == 4
MaxGroups == 2
MaxPieces == 4
MaxHexDigits == 7
MaxNameLen == 2

\* All strings over the characters chars of at most n characters.
StringsUpTo(chars, n) == UNION {[1..k -> chars] : k \in 0..n}

\* All concatenations of at most n of the pieces.
RECURSIVE Concatenations(_, _)
Concatenations(pieces, n) ==
    IF n = 0 THEN {<< >>}
    ELSE LET shorter == Concatenations(pieces, n - 1)
         IN  shorter \cup {s \o p : s \in shorter, p \in pieces}

\* The span of capture group g of a match in SourceText: group 0 is the whole
\* match, the others are a prefix, an empty capture, a suffix.
GroupSpan(g) ==
    IF g = 0 THEN <<0, 2>>
    ELSE CASE g % 3 = 1 -> <<0, 1>>
           [] g % 3 = 2 -> <<1, 1>>
           [] OTHER -> <<1, 2>>

\* The capture list of a match with k groups.
Captures(k) == [g \in 1..k |-> GroupSpan(g - 1)]

\* The capture lists of a match with at most n groups (and of no match data).
CaptureLists(n) == {Captures(k) : k \in 0..n}

\* The regex objects: valid or not, with one named group "n".
Regexes(valids, numbers) ==
    {[valid |-> v, groupName |-> Str(<<"n">>), groupNumber |-> nr] :
        v \in valids, nr \in numbers}

GeneralChars ==
    {Ord("\\"), Ord("1"), Ord("2"), Ord("a"), Ord("q"), Ord("g"), Ord("x"), Ord("{"), Ord("U")}

\* A first call on a fresh builder with any short pattern.
Call ==
    /\ pc = "idle"
    /\ \E p \in StringsUpTo(GeneralChars, MaxLen), cg \in CaptureLists(MaxGroups),
          s \in Regexes(BOOLEAN, {1}) :
            BuildReplacementText(s, SourceText, cg, p)

Next == Call \/ ScanStep \/ Finish

Spec == Init /\ [][Next]_vars

\* The pieces of the patterns that change case: the five case changes, a
\* letter, a whole match, an empty capture, a hex escape, a metacharacter.
CasePieces ==
    {Str(<<"\\", "l">>), Str(<<"\\", "L">>), Str(<<"\\", "u">>), Str(<<"\\", "U">>),
     Str(<<"\\", "E">>), Str(<<"a">>), Str(<<"\\", "0">>), Str(<<"\\", "2">>),
     Str(<<"\\", "x", "6", "1">>)}

\* A first call with a pattern made of case changes and segments; group 0 is
\* "Ba" and group 2 is empty.
CallCase ==
    /\ pc = "idle"
    /\ \E p \in Concatenations(CasePieces, MaxPieces), s \in Regexes({TRUE}, {1}) :
            BuildReplacementText(s, SourceText, Captures(3), p)

NextCase == CallCase \/ ScanStep \/ Finish

SpecCase == Init /\ [][NextCase]_vars

\* The characters of the patterns with hex escapes.
HexChars == {Ord("0"), Ord("1"), Ord("F"), Ord("q"), Ord("{"), Ord("}")}

HexDigits == {Ord("0"), Ord("1"), Ord("F")}

BracedEnds ==
    {<< >>, Str(<<"}">>), Str(<<"q">>)}

\* A first call with a pattern that is one hex escape, well formed or not: \x
\* followed by any short string; \x{ with a string of digits that is closed,
\* cut by another character or left open; the same with one digit between the
\* x and the brace.
CallHex ==
    /\ pc = "idle"
    /\ \E s \in Regexes({TRUE}, {1}) :
          \/ \E t \in StringsUpTo(HexChars, MaxLen) :
                BuildReplacementText(s, SourceText, Captures(1), Str(<<"\\", "x">>) \o t)
          \/ \E digits \in StringsUpTo(HexDigits, MaxHexDigits), end \in BracedEnds :
                BuildReplacementText(s, SourceText, Captures(1),
                                     Str(<<"\\", "x", "{">>) \o digits \o end)
          \/ \E d \in HexDigits, digits \in StringsUpTo(HexDigits, MaxLen - 2),
                end \in BracedEnds :
                BuildReplacementText(s, SourceText, Captures(1),
                                     Str(<<"\\", "x">>) \o << d, Ord("{") >> \o digits \o end)

NextHex == CallHex \/ ScanStep \/ Finish

SpecHex == Init /\ [][NextHex]_vars

BackrefStarts ==
    {Str(<<"\\", "g">>), Str(<<"\\", "g", "{">>), Str(<<"\\", "g", "<">>)}

NameChars ==
    {Ord("0"), Ord("1"), Ord("n"), Ord("-"), Ord(">"), Ord("{"), Ord("\\")}

BackrefEnds ==
    {<< >>, Str(<<"}">>), Str(<<">">>), Str(<<"}", "1">>)}

\* A first call with a pattern that is one \g back reference, well formed or
\* not, on a regex that resolves the name "n" to group 1, to a group the match
\* does not have, or to no group.
CallBackref ==
    /\ pc = "idle"
    /\ \E start \in BackrefStarts, name \in StringsUpTo(NameChars, MaxNameLen),
          end \in BackrefEnds, cg \in CaptureLists(MaxGroups),
          s \in Regexes({TRUE}, {0 - 1, 1, 7}) :
            BuildReplacementText(s, SourceText, cg, start \o name \o end)

NextBackref == CallBackref \/ ScanStep \/ Finish

SpecBackref == Init /\ [][NextBackref]_vars

\* The characters of the patterns without a backslash.
PlainChars == GeneralChars \ {Ord("\\")}

\* A first call with a pattern without a backslash, which takes the fast path.
CallPlain ==
    /\ pc = "idle"
    /\ \E p \in StringsUpTo(PlainChars, MaxLen), s \in Regexes(BOOLEAN, {1}) :
            BuildReplacementText(s, SourceText, Captures(MaxGroups), p)

\* The same call sent through the scan.
CallScanOnly ==
    /\ pc = "idle"
    /\ \E p \in StringsUpTo(PlainChars, MaxLen), s \in Regexes(BOOLEAN, {1}) :
            ScanWithoutFastPath(s, SourceText, Captures(MaxGroups), p)

NextPlain == CallPlain \/ CallScanOnly \/ ScanStep \/ Finish

SpecPlain == Init /\ [][NextPlain]_vars

\* The character of the decimal digit d.
DigitChar(d) == Ord("0") + d

\* The three ways to write the back reference to group d.
BackrefForm(form, d) ==
    CASE form = "digit" -> << Ord("\\"), DigitChar(d) >>
      [] form = "brace" -> << Ord("\\"), Ord("g"), Ord("{"), DigitChar(d), Ord("}") >>
      [] form = "angle" -> << Ord("\\"), Ord("g"), Ord("<"), DigitChar(d), Ord(">") >>

BackrefForms == {"digit", "brace", "angle"}

\* What comes before the back reference: nothing, a pending or a lasting case
\* change, a letter.
FormPrefixes ==
    {<< >>, Str(<<"\\", "l">>), Str(<<"\\", "u">>), Str(<<"\\", "U">>), Str(<<"a">>)}

\* What comes after it: nothing, a letter, the whole match.
FormSuffixes == {<< >>, Str(<<"a">>), Str(<<"\\", "0">>)}

\* A first call with a pattern holding one back reference to a group by its
\* digit, in one of the three forms; group 2 is the empty capture.
CallForms ==
    /\ pc = "idle"
    /\ \E pre \in FormPrefixes, form \in BackrefForms, d \in 0..MaxGroups,
          suf \in FormSuffixes, cg \in CaptureLists(MaxGroups + 1),
          s \in Regexes({TRUE}, {1}) :
            BuildReplacementText(s, SourceText, cg, pre \o BackrefForm(form, d) \o suf)

NextForms == CallForms \/ ScanStep \/ Finish

SpecForms == Init /\ [][NextForms]_vars

MaxSeqPieces == 3

\* The pieces of the patterns with several control sequences: a \x with one
\* digit, an open \x{, an open \g{ with a name, an open \g<, the closing
\* brace, a character that aborts a hex escape, a digit.
SeqPieces ==
    {Str(<<"\\", "x", "1">>), Str(<<"\\", "x", "{", "1">>), Str(<<"\\", "g", "{", "n">>),
     Str(<<"\\", "g", "<">>), Str(<<"}">>), Str(<<"q">>), Str(<<"0">>)}

\* The characters of these pieces.
SeqChars == UNION {{piece[k] : k \in 1..Len(piece)} : piece \in SeqPieces}

\* A first call with a pattern of several control sequences, completed or
\* aborted; the name "n" is group 1.
CallSeq ==
    /\ pc = "idle"
    /\ \E p \in Concatenations(SeqPieces, MaxSeqPieces), s \in Regexes({TRUE}, {1}) :
            BuildReplacementText(s, SourceText, Captures(2), p)

NextSeq == CallSeq \/ ScanStep \/ Finish

SpecSeq == Init /\ [][NextSeq]_vars

MaxRepeatPieces == 2

\* The pieces of the patterns of repeated calls: a case change that is never
\* closed, a pending one, the whole match, an unterminated control.
RepeatPieces ==
    {Str(<<"\\", "U">>), Str(<<"\\", "l">>), Str(<<"\\", "0">>), Str(<<"\\", "g", "{">>)}

\* Any call on the builder, the first one or one after a call that returned,
\* with a valid or an invalid regex; group 0 is "Ba".
CallRepeat ==
    /\ pc \in {"idle", "done"}
    /\ \E p \in Concatenations(RepeatPieces, MaxRepeatPieces), s \in Regexes(BOOLEAN, {1}) :
            BuildReplacementText(s, SourceText, Captures(1), p)

NextRepeat == CallRepeat \/ ScanStep \/ Finish

SpecRepeat == Init /\ [][NextRepeat]_vars

(***************************************************************************)
(* The properties.                                                         *)
(***************************************************************************)

\* The character the next iteration reads.
CurChar == replacement_pattern[i + 1]

\* This step is an iteration of the for loop.
Scanned == pc = "scan" /\ pc' = "scan"

\* This step is the exit of a call that scanned.
Finished == pc = "scan" /\ pc' = "done"

\* The next character is the first one after a backslash.
AtControlStart == in_control /\ control_char = QCharNull

\* The text the last step handed to the case change engine (it hands over at
\* most one).
HandedText == IF segment = << >> THEN << >> ELSE segment[1]

IsDirective(c) == c \in {Ord("l"), Ord("L"), Ord("u"), Ord("U")}

DirectiveRequest(c) ==
    CASE c = Ord("l") -> "CaseChange_LowerNext"
      [] c = Ord("L") -> "CaseChange_Lower"
      [] c = Ord("u") -> "CaseChange_UpperNext"
      [] c = Ord("U") -> "CaseChange_Upper"

\* The control characters the scan knows.
Recognized(c) ==
    \/ isDigit(c)
    \/ c \in {Ord("a"), Ord("b"), Ord("f"), Ord("n"), Ord("r"), Ord("t"), Ord("v"), Ord("\\")}
    \/ c \in {Ord("E"), Ord("g"), Ord("l"), Ord("L"), Ord("u"), Ord("U"), Ord("x")}

\* A text with the case of its first character changed as \l or \u asks.
FirstCased(state, t) ==
    IF Len(t) = 0 THEN << >>
    ELSE << (IF state = "CaseChange_LowerNext" THEN toLower(t[1]) ELSE toUpper(t[1])) >> \o Tail(t)

\* The text of the span of group n.
SpanText(n) ==
    Substring(capture_groups_offsets[n + 1][1], capture_groups_offsets[n + 1][2], text)

\* C1: a finished call returned false exactly when the regex is invalid and
\* true otherwise, whatever the pattern; a call that is scanning has a valid
\* regex and always has a next step (an iteration or the exit).
C1_FalseIffInvalid ==
    /\ pc = "done" => ret = (IF sre.valid THEN "true" ELSE "false")
    /\ pc = "scan" => (sre.valid /\ ret = "none" /\ i <= Len(replacement_pattern))

\* A call on the unterminated escape \x{ returned true.
C1_Witness ==
    /\ pc = "done"
    /\ ret = "true"
    /\ in_control
    /\ replacement_pattern = Str(<<"\\", "x", "{">>)

\* C2: a call with a valid regex and a pattern without a backslash returned
\* true with out equal to the pattern, whatever the capture spans are.
C2_NoBackslashVerbatim ==
    (pc = "done" /\ sre.valid /\ ~contains(replacement_pattern, Ord("\\")))
        => (ret = "true" /\ out = replacement_pattern)

\* A call with the pattern aq1 and two capture groups returned aq1.
C2_Witness ==
    /\ pc = "done"
    /\ ret = "true"
    /\ replacement_pattern = Str(<<"a", "q", "1">>)
    /\ Len(capture_groups_offsets) = 2
    /\ out = Str(<<"a", "q", "1">>)

\* C3: the first directive wins.  A \l, \L, \u or \U sets the case change it
\* asks for when none is active and leaves an active one as it is; and no step
\* takes the case change from one active value to another.
C3_FirstDirectiveWins ==
    [][ /\ (Scanned /\ AtControlStart /\ IsDirective(CurChar)) =>
               m_caseChangeState' =
                   (IF m_caseChangeState = "CaseChange_None"
                    THEN DirectiveRequest(CurChar) ELSE m_caseChangeState)
        /\ (m_caseChangeState # "CaseChange_None" /\ m_caseChangeState' # "CaseChange_None") =>
               m_caseChangeState' = m_caseChangeState
      ]_vars

\* \l\u\0 with group 0 = Ba gave ba: the \l won and the \u was dropped.
C3_Witness ==
    /\ pc = "done"
    /\ replacement_pattern = Str(<<"\\", "l", "\\", "u", "\\", "0">>)
    /\ out = Str(<<"b", "a">>)

\* C4: while \L (\U) is active each step appends exactly the lower-cased
\* (upper-cased) text it hands over, a literal character is handed over as it
\* is read, and the case change stays until the step that reads the E of \E;
\* that step sets no case change whatever was active and appends nothing;
\* with no case change active the text handed over is appended unchanged and
\* a directive is honored.
C4_StickyUntilE ==
    [][ /\ Len(segment') <= 1
        /\ (m_caseChangeState \in {"CaseChange_Lower", "CaseChange_Upper"} /\ (Scanned \/ Finished)) =>
              /\ m_finalText' = m_finalText \o
                    (IF m_caseChangeState = "CaseChange_Lower"
                     THEN StringToLower(HandedText') ELSE StringToUpper(HandedText'))
              /\ m_caseChangeState' =
                    (IF Scanned /\ AtControlStart /\ CurChar = Ord("E")
                     THEN "CaseChange_None" ELSE m_caseChangeState)
        /\ (Scanned /\ ~in_control /\ CurChar # Ord("\\")) => segment' = << << CurChar >> >>
        /\ (Scanned /\ AtControlStart /\ CurChar = Ord("E")) =>
              /\ m_caseChangeState' = "CaseChange_None"
              /\ segment' = << >>
              /\ m_finalText' = m_finalText
        /\ (m_caseChangeState = "CaseChange_None" /\ (Scanned \/ Finished)) =>
              /\ m_finalText' = m_finalText \o HandedText'
              /\ (Scanned /\ AtControlStart /\ IsDirective(CurChar)) =>
                    m_caseChangeState' = DirectiveRequest(CurChar)
      ]_vars

\* \U\0\Ea with group 0 = Ba gave BAa.
C4_Witness ==
    /\ pc = "done"
    /\ replacement_pattern = Str(<<"\\", "U", "\\", "0", "\\", "E", "a">>)
    /\ out = Str(<<"B", "A", "a">>)

\* C5 as claimed: every text handed over while \l or \u is pending, the text
\* of an empty capture included, is appended with only its first character
\* changed and leaves no case change pending.
C5_NextAppliesToAnySegment ==
    [][ ((Scanned \/ Finished) /\ segment' # << >>
            /\ m_caseChangeState \in {"CaseChange_LowerNext", "CaseChange_UpperNext"}) =>
              /\ m_finalText' = m_finalText \o FirstCased(m_caseChangeState, HandedText')
              /\ m_caseChangeState' = "CaseChange_None"
      ]_vars

\* C5 as amended: every text handed over while \l or \u is pending is appended
\* with only its first character changed; a text that is not empty ends the
\* pending case change, an empty one (an empty capture) leaves it pending.
C5_NextAppliesToNonEmptySegment ==
    [][ ((Scanned \/ Finished) /\ segment' # << >>
            /\ m_caseChangeState \in {"CaseChange_LowerNext", "CaseChange_UpperNext"}) =>
              /\ m_finalText' = m_finalText \o FirstCased(m_caseChangeState, HandedText')
              /\ m_caseChangeState' =
                    (IF Len(HandedText') = 0 THEN m_caseChangeState ELSE "CaseChange_None")
      ]_vars

\* \l\2\0\0 with group 2 empty and group 0 = Ba gave baBa: the \l outlived the
\* empty capture and changed only the first character of the next text.
C5_Witness ==
    /\ pc = "done"
    /\ replacement_pattern = Str(<<"\\", "l", "\\", "2", "\\", "0", "\\", "0">>)
    /\ out = Str(<<"b", "a", "B", "a">>)
    /\ m_caseChangeState = "CaseChange_None"

\* C6: the step that reads a digit d right after a backslash hands over the
\* text of span d when d is less than the number of spans and the two
\* characters backslash, d otherwise, and ends the control; so backslash,
\* digit, digit gives the first digit's text followed by the second digit.
C6_SingleDigitBackref ==
    /\ [][ (Scanned /\ AtControlStart /\ isDigit(CurChar)) =>
              /\ ~in_control'
              /\ segment' =
                    << IF digitValue(CurChar) < Len(capture_groups_offsets)
                       THEN SpanText(digitValue(CurChar))
                       ELSE << Ord("\\"), CurChar >> >>
              /\ m_caseChangeState = "CaseChange_None" =>
                    m_finalText' = m_finalText \o HandedText'
         ]_vars
    /\ [](LET p == replacement_pattern
          IN  (pc = "done" /\ sre.valid /\ Len(p) = 3 /\ p[1] = Ord("\\")
                  /\ isDigit(p[2]) /\ isDigit(p[3])) =>
                 out = (IF digitValue(p[2]) < Len(capture_groups_offsets)
                        THEN SpanText(digitValue(p[2]))
                        ELSE << p[1], p[2] >>) \o << p[3] >>)

\* \12 with two groups, group 1 = B, gave B2.
C6_Witness ==
    /\ pc = "done"
    /\ replacement_pattern = Str(<<"\\", "1", "2">>)
    /\ Len(capture_groups_offsets) = 2
    /\ out = Str(<<"B", "2">>)

\* C7 as claimed: the step that reads an unrecognized character right after a
\* backslash hands over exactly backslash and that character and ends the
\* control, so that the next character is scanned as literal text.
C7_UnrecognizedControlEndsAtOnce ==
    [][ (Scanned /\ AtControlStart /\ ~Recognized(CurChar)) =>
              /\ ~in_control'
              /\ segment' = << << Ord("\\"), CurChar >> >>
      ]_vars

\* C8 as claimed: in \x without an opening brace right after the x, the step
\* that reads a character that is no hex digit hands over the characters since
\* the backslash and ends the control, and does not enter the braced form.
C8_FixedHexAbortsOnNonHex ==
    [][ (Scanned /\ in_control /\ control_char = Ord("x") /\ ~in_hex6 /\ ~is_hex(CurChar)
            /\ ~(CurChar = Ord("{") /\ invalid_control = Str(<<"\\", "x">>))) =>
              /\ ~in_control'
              /\ ~in_hex6'
              /\ segment' = << Append(invalid_control, CurChar) >>
      ]_vars

\* The characters of s after its first opening brace.
RECURSIVE AfterBrace(_)
AfterBrace(s) ==
    IF Len(s) = 0 THEN << >>
    ELSE IF Head(s) = Ord("{") THEN Tail(s)
    ELSE AfterBrace(Tail(s))

\* The digit strings the claim lets decode.
DecodableDigits(d) ==
    /\ Len(d) \in {2, 4, 6}
    /\ Len(d) = 6 => (d[1] = Ord("0") \/ (d[1] = Ord("1") /\ d[2] = Ord("0")))

\* C9: inside \x{, the step that reads } after a digit string of length 2, 4 or
\* 6 (a length 6 one starting with 0 or 10) hands over the one code point the
\* string denotes, which is at most 0x10FFFF and for length 6 is
\* plane * 65536 + remainder; a hex digit is collected; every other step, and
\* the end of the pattern, hands over the characters since the backslash.
C9_BracedHexDecode ==
    [][ /\ (Scanned /\ in_control /\ control_char = Ord("x") /\ in_hex6) =>
              LET digits == AfterBrace(invalid_control)
              IN  IF CurChar = Ord("}") /\ DecodableDigits(digits)
                  THEN /\ toUInt16(digits) <= (17 * 65536) - 1
                       /\ Len(digits) = 6 =>
                              toUInt16(digits) =
                                  65536 * toUInt16(SubSeq(digits, 1, 2))
                                      + toUInt16(SubSeq(digits, 3, 6))
                       /\ segment' = << fromUcs4(toUInt16(digits)) >>
                       /\ ~in_control'
                  ELSE IF is_hex(CurChar)
                  THEN /\ segment' = << >>
                       /\ in_control'
                       /\ AfterBrace(invalid_control') = Append(digits, CurChar)
                  ELSE /\ segment' = << Append(invalid_control, CurChar) >>
                       /\ ~in_control'
        /\ (Finished /\ in_control /\ control_char = Ord("x") /\ in_hex6) =>
              segment' = << invalid_control >>
      ]_vars

\* \x{10FFFF} gave the surrogate pair of U+10FFFF.
C9_Witness ==
    /\ pc = "done"
    /\ replacement_pattern = Str(<<"\\", "x", "{", "1", "0", "F", "F", "F", "F", "}">>)
    /\ out = << 56319, 57343 >>

\* C10: the step that reads the matching closer of \g{ or \g< takes the name
\* as the group number when it parses to a nonzero integer or is the text 0,
\* without asking the regex, and else asks the regex for the number of the
\* name; it hands over the text of that group's span when the number is at
\* least 0 and less than the number of spans and the characters from the
\* backslash through the closer otherwise, and ends the control.
C10_NamedBackref ==
    [][ (Scanned /\ in_control /\ control_char = Ord("g")
            /\ \/ (backref_bracket_start_char = Ord("{") /\ CurChar = Ord("}"))
               \/ (backref_bracket_start_char = Ord("<") /\ CurChar = Ord(">"))) =>
              LET name == SubSeq(invalid_control, 4, Len(invalid_control))
                  direct == toInt(name) # 0 \/ name = Str(<<"0">>)
                  number == IF direct THEN toInt(name) ELSE getCaptureStringNumber(sre, name)
              IN  /\ lookups' = (IF direct THEN << >> ELSE << name >>)
                  /\ segment' =
                        << IF number >= 0 /\ number < Len(capture_groups_offsets)
                           THEN SpanText(number)
                           ELSE Append(invalid_control, CurChar) >>
                  /\ ~in_control'
                  /\ m_finalText' = m_finalText \o HandedText'
      ]_vars

\* The scan of \g{n}, with the name n resolved to group 1 = B, asked the regex
\* for n and appended B.
C10_Witness ==
    /\ pc = "scan"
    /\ i = Len(replacement_pattern)
    /\ replacement_pattern = Str(<<"\\", "g", "{", "n", "}">>)
    /\ sre.groupNumber = 1
    /\ Len(capture_groups_offsets) = 2
    /\ lookups = << Str(<<"n">>) >>
    /\ m_finalText = Str(<<"B">>)

\* The characters of the pattern from the backslash that set in_control
\* through the character at index k - 1 (the k-th character).
SinceBackslash(k) == SubSeq(replacement_pattern, control_start + 1, k)

\* Two texts with the same characters up to their case.
SameUpToCase(s, t) ==
    /\ Len(s) = Len(t)
    /\ \A k \in 1..Len(s) : toLower(s[k]) = toLower(t[k])

\* The text the step appends to m_finalText.
Appended == SubSeq(m_finalText', Len(m_finalText) + 1, Len(m_finalText'))

\* C11: the exit of a scan that is still in a control hands over, once, the
\* characters of the pattern from the control's backslash to the end of the
\* pattern, and the output grows by exactly these characters (as they are
\* when no case change is active, and with none missing or added otherwise);
\* no earlier step of the open control has appended anything; the exit of a
\* scan that is in no control appends nothing.
C11_UnterminatedControlEmittedOnce ==
    [][ /\ (Finished /\ in_control) =>
              /\ segment' = << SinceBackslash(Len(replacement_pattern)) >>
              /\ m_finalText' = m_finalText \o Appended
              /\ SameUpToCase(Appended, SinceBackslash(Len(replacement_pattern)))
              /\ m_caseChangeState = "CaseChange_None" =>
                    Appended = SinceBackslash(Len(replacement_pattern))
              /\ out' = m_finalText'
        /\ (Finished /\ ~in_control) =>
              /\ segment' = << >>
              /\ out' = m_finalText
        /\ (Scanned /\ in_control') =>
              /\ segment' = << >>
              /\ m_finalText' = m_finalText
      ]_vars

\* The unterminated \g{a came out as the text \g{a.
C11_Witness ==
    /\ pc = "done"
    /\ in_control
    /\ replacement_pattern = Str(<<"\\", "g", "{", "a">>)
    /\ segment = << Str(<<"\\", "g", "{", "a">>) >>
    /\ out = Str(<<"\\", "g", "{", "a">>)

\* The step reads the character that turns the control sequence it is in into
\* a soft degradation: a digit with no span, an unrecognized control
\* character, a character after \g that opens no bracket, the closer of a
\* name or number with no span, the closing brace of a \x{ digit string of a
\* wrong length or plane.
Degrades ==
    /\ Scanned
    /\ in_control
    /\ LET s == SinceBackslash(i)
           name == SubSeq(s, 4, Len(s))
       IN  \/ Len(s) = 1 /\ isDigit(CurChar) /\ digitValue(CurChar) >= Len(capture_groups_offsets)
           \/ Len(s) = 1 /\ ~Recognized(CurChar)
           \/ Len(s) = 2 /\ s[2] = Ord("g") /\ CurChar \notin {Ord("{"), Ord("<")}
           \/ /\ Len(s) >= 3
              /\ s[2] = Ord("g")
              /\ \/ (s[3] = Ord("{") /\ CurChar = Ord("}"))
                 \/ (s[3] = Ord("<") /\ CurChar = Ord(">"))
              /\ LET number == BackrefNumber(name).number
                 IN  number < 0 \/ number >= Len(capture_groups_offsets)
           \/ /\ Len(s) >= 3
              /\ s[2] = Ord("x")
              /\ s[3] = Ord("{")
              /\ CurChar = Ord("}")
              /\ ~DecodableDigits(name)

\* C12 as claimed: the step of a soft degradation, and the exit of a scan
\* that is still in a control, appends exactly the characters of the pattern
\* since the control's backslash, whatever case change is active, and a
\* degrading step leaves the scan outside any control.
C12_DegradationEmitsRaw ==
    [][ /\ Degrades =>
              /\ m_finalText' = m_finalText \o Append(SinceBackslash(i), CurChar)
              /\ ~in_control'
        /\ (Finished /\ in_control) =>
              m_finalText' = m_finalText \o SinceBackslash(Len(replacement_pattern))
      ]_vars

\* C13: whatever calls came before on the builder, a call that returned has
\* returned false when its regex is invalid and else true with out equal to
\* the text a call with the same arguments builds from the state resetState()
\* gives; and a call that is scanning holds in m_finalText, m_caseChangeState
\* and the state of the scan what the loop gives from that state on the
\* characters read so far.
C13_CallDependsOnlyOnItsInputs ==
    /\ (pc = "done" /\ ~sre.valid) => ret = "false"
    /\ (pc = "done" /\ sre.valid) =>
          (ret = "true" /\ out = BuiltText(replacement_pattern))
    /\ pc = "scan" =>
          LET b == ForLoop(resetState, SubSeq(replacement_pattern, 1, i))
          IN  /\ m_finalText = b.m_finalText
              /\ m_caseChangeState = b.m_caseChangeState
              /\ in_control = b.in_control
              /\ in_control => /\ control_char = b.control_char
                               /\ invalid_control = b.invalid_control

\* A call with \0 is about to return Ba, after an earlier call on the same
\* builder with \U\0 left BA in out and the case change \U open.
C13_Witness ==
    /\ pc = "scan"
    /\ out = Str(<<"B", "A">>)
    /\ replacement_pattern = Str(<<"\\", "0">>)
    /\ i = Len(replacement_pattern)
    /\ m_finalText = Str(<<"B", "a">>)
    /\ m_caseChangeState = "CaseChange_None"

\* C14: a call with an invalid regex returns false at once, reads no
\* character of the pattern, hands no text over, and leaves out as it was
\* before the call, whatever an earlier call left there.
C14_InvalidRegexLeavesOut ==
    [][ (pc # "scan" /\ ~sre'.valid) =>
              /\ pc' = "done"
              /\ ret' = "false"
              /\ out' = out
              /\ i' = 0
              /\ segment' = << >>
              /\ m_finalText' = << >>
      ]_vars

\* A call with an invalid regex and the pattern \0 returned false with out
\* still holding the BA of an earlier call.
C14_Witness ==
    /\ pc = "done"
    /\ ret = "false"
    /\ ~sre.valid
    /\ replacement_pattern = Str(<<"\\", "0">>)
    /\ out = Str(<<"B", "A">>)

\* The character that closes the bracket opened by the character open.
Closer(open) == IF open = Ord("{") THEN Ord("}") ELSE Ord(">")

\* C15: inside \g{ or \g<, the name collected so far is every character read
\* after the bracket; the step that reads a character other than the closer
\* of the bracket that was opened (the other closer, an opening bracket and a
\* backslash included) appends it to the name, hands no text over, and stays
\* in the same control with the same bracket; only the step that reads the
\* closer ends the control.
C15_OnlyMatchingCloserEndsName ==
    [][ LET s == SinceBackslash(i)
        IN  (Scanned /\ in_control /\ Len(s) >= 3 /\ s[2] = Ord("g")
                /\ s[3] \in {Ord("{"), Ord("<")}) =>
              /\ backref_name = SubSeq(s, 4, Len(s))
              /\ IF CurChar = Closer(s[3])
                 THEN /\ ~in_control'
                      /\ Len(segment') = 1
                 ELSE /\ in_control'
                      /\ control_char' = Ord("g")
                      /\ backref_bracket_start_char' = s[3]
                      /\ backref_name' = Append(SubSeq(s, 4, Len(s)), CurChar)
                      /\ control_start' = control_start
                      /\ segment' = << >>
                      /\ lookups' = << >>
                      /\ m_finalText' = m_finalText
      ]_vars

\* In \g{n>} the > did not end the name: the closing brace did, and the regex
\* was asked for the name n>.
C15_Witness ==
    /\ pc = "scan"
    /\ i = Len(replacement_pattern)
    /\ replacement_pattern = Str(<<"\\", "g", "{", "n", ">", "}">>)
    /\ lookups = << Str(<<"n", ">">>) >>
    /\ ~in_control
    /\ segment = << Str(<<"\\", "g", "{", "n", ">", "}">>) >>

\* C16: at every position of the scan that is inside a control sequence,
\* invalid_control is exactly the characters of the pattern from the
\* backslash that started the control through the character just read.
C16_InvalidControlIsPatternSlice ==
    (pc = "scan" /\ in_control) =>
        /\ control_start < i
        /\ replacement_pattern[control_start + 1] = Ord("\\")
        /\ invalid_control = SinceBackslash(i)

\* After \x1q was given up, the scan of \x{1 holds \x{1 and nothing of \x1q.
C16_Witness ==
    /\ pc = "scan"
    /\ i = Len(replacement_pattern)
    /\ replacement_pattern = Str(<<"\\", "x", "1", "q", "\\", "x", "{", "1">>)
    /\ in_control
    /\ control_start = 4
    /\ invalid_control = Str(<<"\\", "x", "{", "1">>)

\* What a step leaves that the rest of the call can see: the text built, the
\* case change, whether a control is open, the texts handed over and the
\* names looked up.
Outcome(b) ==
    << b.m_finalText, b.m_caseChangeState, b.in_control, b.segment, b.lookups >>

\* The builder at this position of the scan had the call started at the
\* backslash of the control it is in (or at this position, when it is in no
\* control), with the text built so far and the case change in force.
Restarted ==
    ForLoop([resetState EXCEPT !.m_finalText = m_finalText,
                               !.m_caseChangeState = m_caseChangeState],
            IF in_control THEN SinceBackslash(i) ELSE << >>)

\* C17: at every position of the scan, whatever character comes next, the
\* step has the outcome it has when the accumulators hold only what the
\* characters since the backslash of the current control put there, and so
\* has the flush at the end of the pattern: what earlier control sequences
\* left in the hex digits, the in_hex6 flag, the bracket and the name is
\* never read.
C17_StaleAccumulatorsNeverRead ==
    pc = "scan" =>
        LET b == Builder
            r == Restarted
        IN  /\ \A c \in SeqChars : Outcome(LoopBody(b, c)) = Outcome(LoopBody(r, c))
            /\ b.in_control = r.in_control
            /\ b.in_control =>
                  /\ b.invalid_control = r.invalid_control
                  /\ Outcome(accumulateReplcementText(b, b.invalid_control)) =
                        Outcome(accumulateReplcementText(r, r.invalid_control))

\* After \x{1q was given up with in_hex6 set and a digit collected, the scan
\* of \x1 is in the form without a brace and holds the one digit 1.
C17_Witness ==
    /\ pc = "scan"
    /\ i = Len(replacement_pattern)
    /\ replacement_pattern = Str(<<"\\", "x", "{", "1", "q", "\\", "x", "1">>)
    /\ in_control
    /\ ~in_hex6
    /\ control_x_hex = Str(<<"1">>)
    /\ control_x6_hex = << >>
    /\ m_finalText = Str(<<"\\", "x", "{", "1", "q">>)

\* C18: for a pattern without a backslash, the call returns the same value
\* with the same out whether it took the fast path or the scan: true with out
\* equal to the pattern when the regex is valid, false with out untouched
\* when it is not; and the scan has built the characters read so far, is in
\* no control and has no case change active.
C18_FastPathIsScan ==
    ~contains(replacement_pattern, Ord("\\")) =>
        /\ (pc = "done" /\ sre.valid) => (ret = "true" /\ out = replacement_pattern)
        /\ (pc = "done" /\ ~sre.valid) => (ret = "false" /\ out = OutBefore)
        /\ pc = "scan" =>
              /\ m_finalText = SubSeq(replacement_pattern, 1, i)
              /\ ~in_control
              /\ m_caseChangeState = "CaseChange_None"

\* The scan of the pattern aU{1, with no backslash, returned aU{1.
C18_Witness ==
    /\ pc = "done"
    /\ ret = "true"
    /\ replacement_pattern = Str(<<"a", "U", "{", "1">>)
    /\ i = Len(replacement_pattern)
    /\ segment = << >>
    /\ m_finalText = replacement_pattern
    /\ out = replacement_pattern

\* The builder after the loop over p from the reset state and the flush of an
\* unterminated control.
Built(p) ==
    LET b == ForLoop(resetState, p)
    IN  IF b.in_control THEN accumulateReplcementText(b, b.invalid_control) ELSE b

\* C19: when the pattern is a prefix, then \g{d} or \g<d> for a digit d less
\* than the number of spans, then a suffix, the call never asks the regex for
\* a name, and it returns the out and leaves the case change that the
\* pattern with backslash, d in the same place gives.
C19_DigitFormsAgree ==
    \A pre \in FormPrefixes, form \in {"brace", "angle"}, d \in 0..9, suf \in FormSuffixes :
        (/\ pc # "idle"
         /\ d < Len(capture_groups_offsets)
         /\ replacement_pattern = pre \o BackrefForm(form, d) \o suf) =>
            /\ lookups = << >>
            /\ pc = "done" =>
                  LET b == Built(pre \o BackrefForm("digit", d) \o suf)
                  IN  /\ ret = "true"
                      /\ out = b.m_finalText
                      /\ m_caseChangeState = b.m_caseChangeState

\* \l\g<0>a with group 0 = Ba gave baa with no case change left and no name
\* asked for, as \l\0a does.
C19_Witness ==
    /\ pc = "done"
    /\ replacement_pattern = Str(<<"\\", "l", "\\", "g", "<", "0", ">", "a">>)
    /\ Len(capture_groups_offsets) = 1
    /\ out = Str(<<"b", "a", "a">>)
    /\ Built(Str(<<"\\", "l", "\\", "0", "a">>)).m_finalText = out
    /\ m_caseChangeState = "CaseChange_None"
====
